---- MODULE Spec2Model ----
(***************************************************************************)
(* Model of oxigrad's scalar reverse-mode autodiff engine                  *)
(* (src/src/oxigrad/engine.rs).                                            *)
(*                                                                         *)
(* A node (Core) lives in an arena: node i is position i of the sequences  *)
(* data, grad, op, children and backward.  The position stands for the     *)
(* address of the node's RefCell (core.as_ptr()), and for the node's two   *)
(* Rc<Cell<f64>> cells, which are created with the node and never          *)
(* replaced.  A Value handle is the address it holds.                      *)
(*                                                                         *)
(* f64 numbers are exact rationals <<n, d>> in lowest terms with d > 0;    *)
(* the inputs are kept in the range where no infinity or NaN arises (a     *)
(* zero is never raised to a negative power).                              *)
(*                                                                         *)
(* pc, self, tp_order, visited and idx are the position and the locals of  *)
(* a running backward call.  hist, nbuilds and nops are history variables: *)
(* hist holds the grad cells at the start of the current run of calls on   *)
(* self and after each call of the run that returned, nbuilds and nops     *)
(* count the constructor/builder calls and the set_data, set_grad and      *)
(* backward calls made so far.                                             *)
(*                                                                         *)
(* Spec is the engine under an arbitrary caller.  SpecTests runs the unit  *)
(* tests of engine.rs, SpecGroup calls utils::group, SpecTrain runs the    *)
(* training loop of main.rs on a small Model.                              *)
(***************************************************************************)
EXTENDS Integers, Sequences, FiniteSets, TLC

VARIABLES data, grad, op, children, backward,
          pc, self, tp_order, visited, idx,
          hist, nbuilds, nops,
          test, grp, nn, train

vars == <<data, grad, op, children, backward,
          pc, self, tp_order, visited, idx, hist, nbuilds, nops,
          test, grp, nn, train>>

heapVars == <<data, grad, op, children, backward>>
callVars == <<self, tp_order, visited, idx>>

\* the callers of the engine: a unit test of engine.rs, a call of
\* utils::group, the Model of nn.rs and the locals of main's training loop
auxVars == <<test, grp, nn, train>>

(***************************************************************************)
(* Bounds: the number of constructor and builder calls, the number of      *)
(* set_data, set_grad and backward calls, and the values the caller passes *)
(***************************************************************************)
MaxBuilds == 3
MaxOps == 2

LeafData == {-1, 2}
DataVals == {-1, 3}
GradVals == {3}
Exps == {-1, 2}

(***************************************************************************)
(* f64 arithmetic on exact rationals                                       *)
(***************************************************************************)
Abs(x) == IF x < 0 THEN -x ELSE x

RECURSIVE GCD(_, _)
GCD(a, b) == IF b = 0 THEN a ELSE GCD(b, a % b)

Rat(n, d) ==
    LET g == GCD(Abs(n), Abs(d))
        s == IF d < 0 THEN -1 ELSE 1
    IN  <<(s * n) \div g, (s * d) \div g>>

F(n) == <<n, 1>>

\* sums and products are formed over the least common denominator and
\* after cancelling across, which keeps the integers small
FAdd(x, y) ==
    LET g == GCD(x[2], y[2])
    IN  Rat(x[1] * (y[2] \div g) + y[1] * (x[2] \div g), (x[2] \div g) * y[2])

FMul(x, y) ==
    LET g1 == GCD(Abs(x[1]), y[2])
        g2 == GCD(Abs(y[1]), x[2])
    IN  Rat((x[1] \div g1) * (y[1] \div g2), (x[2] \div g2) * (y[2] \div g1))
FLt(x, y) == x[1] * y[2] < y[1] * x[2]
FGe(x, y) == ~FLt(x, y)

RECURSIVE FPowNat(_, _)
FPowNat(x, k) == IF k = 0 THEN F(1) ELSE FMul(x, FPowNat(x, k - 1))

\* f64::powf for an integral exponent and a base that keeps the result finite
powf(x, k) ==
    IF k >= 0 THEN FPowNat(x, k)
    ELSE LET p == FPowNat(x, -k) IN Rat(p[2], p[1])

\* the base/exponent pairs for which powf and the Power rule stay finite
PowFinite(x, k) == k >= 1 \/ x[1] # 0

(***************************************************************************)
(* Option<T>: None is <<>>, Some(v) is <<v>>                               *)
(***************************************************************************)
None == <<>>
Some(v) == <<v>>
IsSome(o) == o # <<>>
Unwrap(o) == o[1]

(***************************************************************************)
(* The heap of nodes as a value, so that builders compose                  *)
(***************************************************************************)
Heap == [data |-> data, grad |-> grad, op |-> op,
         children |-> children, backward |-> backward]

Nodes == 1..Len(data)

\* Value::new((data, op, children)): grad 0.0, no backward closure
ValueNew(h, d, o, kids) ==
    [data |-> Append(h.data, d),
     grad |-> Append(h.grad, F(0)),
     op |-> Append(h.op, o),
     children |-> Append(h.children, kids),
     backward |-> Append(h.backward, None)]

\* the handle returned by the last constructor call on h
Last(h) == Len(h.data)

\* let x = e; body(x): e is computed once, then the rest runs on its value
Then(e, body(_)) == CHOOSE r \in {body(x) : x \in {e}} : TRUE

\* out.core.borrow_mut().backward = Some(back)
AttachBackward(h, out, back) ==
    [h EXCEPT !.backward = [@ EXCEPT ![out] = Some(back)]]

Closure(kind, s, oth, out, exp) ==
    [kind |-> kind, s |-> s, oth |-> oth, out |-> out, exp |-> exp]

\* Value::new(f64)
LeafNew(h, d) == ValueNew(h, d, "NoOp", None)

\* faulty variant: the children list records the new node in place of the left operand
AddBSelfChild(h, s, other) ==
    LET out == Len(h.data) + 1
        h1 == ValueNew(h, FAdd(h.data[s], h.data[other]), "Addition",
                       Some(<<out, other>>))
    IN  AttachBackward(h1, out, Closure("add", s, other, out, 0))

\* impl ops::Add<&Value> for &Value
AddB(h, s, other) ==
    LET h1 == ValueNew(h, FAdd(h.data[s], h.data[other]), "Addition",
                       Some(<<s, other>>))
        out == Last(h1)
    IN  AttachBackward(h1, out, Closure("add", s, other, out, 0))

\* faulty variant: the forward value is copied from Add
MulBAddsData(h, s, other) ==
    LET h1 == ValueNew(h, FAdd(h.data[s], h.data[other]), "Multiplication",
                       Some(<<s, other>>))
        out == Last(h1)
    IN  AttachBackward(h1, out, Closure("mul", s, other, out, 0))

\* impl ops::Mul<&Value> for &Value
MulB(h, s, other) ==
    LET h1 == ValueNew(h, FMul(h.data[s], h.data[other]), "Multiplication",
                       Some(<<s, other>>))
        out == Last(h1)
    IN  AttachBackward(h1, out, Closure("mul", s, other, out, 0))

\* Value::power
PowerB(h, s, exp) ==
    LET h1 == ValueNew(h, powf(h.data[s], exp), "Power", Some(<<s>>))
        out == Last(h1)
    IN  AttachBackward(h1, out, Closure("power", s, s, out, exp))

\* faulty variant: the operand's grad cell is reset by the builder
ReluBClearsOperand(h, s) ==
    LET d == IF FGe(h.data[s], F(0)) THEN h.data[s] ELSE F(0)
        h1 == ValueNew([h EXCEPT !.grad = [@ EXCEPT ![s] = F(0)]], d, "ReLU",
                       Some(<<s>>))
        out == Last(h1)
    IN  AttachBackward(h1, out, Closure("relu", s, s, out, 0))

\* Value::relu
ReluB(h, s) ==
    LET d == IF FGe(h.data[s], F(0)) THEN h.data[s] ELSE F(0)
        h1 == ValueNew(h, d, "ReLU", Some(<<s>>))
        out == Last(h1)
    IN  AttachBackward(h1, out, Closure("relu", s, s, out, 0))

\* faulty variant: the operand is multiplied by a leaf holding 1.0
NegBKeepsSign(h, s) ==
    LET h1 == LeafNew(h, F(1))
    IN  MulB(h1, s, Last(h1))

\* impl ops::Neg for &Value: self * &Value::new(-1.0)
NegB(h, s) ==
    LET h1 == LeafNew(h, F(-1))
    IN  MulB(h1, s, Last(h1))

\* impl ops::Sub<&Value> for &Value: self + &(-other)
SubB(h, s, other) ==
    LET h1 == NegB(h, other)
    IN  AddB(h1, s, Last(h1))

\* impl ops::Div<&Value> for &Value: self * &other.power(-1.0)
DivB(h, s, other) ==
    LET h1 == PowerB(h, other, -1)
    IN  MulB(h1, s, Last(h1))

(***************************************************************************)
(* Derivative rules: the closures attached by the builders.  Each write is *)
(* cell.set(cell.get() + ...), the writes run in program order and read    *)
(* the cells as they are at that moment.                                   *)
(***************************************************************************)
CellAdd(g, n, x) == [g EXCEPT ![n] = FAdd(g[n], x)]

\* faulty variant: the operands' cells are overwritten with out's grad
AddRuleOverwrites(c, g, d) ==
    LET g1 == [g EXCEPT ![c.s] = g[c.out]]
    IN  [g1 EXCEPT ![c.oth] = g1[c.out]]

\* faulty variant: the second write starts from the value the cell held
\* before the first write
AddRuleStaleRead(c, g, d) ==
    LET g1 == CellAdd(g, c.s, g[c.out])
    IN  [g1 EXCEPT ![c.oth] = FAdd(g[c.oth], g[c.out])]

AddRule(c, g, d) ==
    LET g1 == CellAdd(g, c.s, g[c.out])
    IN  CellAdd(g1, c.oth, g1[c.out])

\* faulty variant: each operand is scaled by its own data
MulRuleOwnData(c, g, d) ==
    LET g1 == CellAdd(g, c.s, FMul(d[c.s], g[c.out]))
    IN  CellAdd(g1, c.oth, FMul(d[c.oth], g1[c.out]))

MulRule(c, g, d) ==
    LET g1 == CellAdd(g, c.s, FMul(d[c.oth], g[c.out]))
    IN  CellAdd(g1, c.oth, FMul(d[c.s], g1[c.out]))

PowerRule(c, g, d) ==
    CellAdd(g, c.s, FMul(FMul(F(c.exp), powf(d[c.s], c.exp - 1)), g[c.out]))

\* faulty variant: the gate looks at the data computed for out at construction
ReluRuleGateOnOut(c, g, d) ==
    CellAdd(g, c.s, IF FLt(F(0), d[c.out]) THEN g[c.out] ELSE F(0))

\* faulty variant: an operand that is exactly 0 blocks the gradient
ReluRuleBlocksZero(c, g, d) ==
    CellAdd(g, c.s, IF FLt(F(0), d[c.s]) THEN FMul(F(1), g[c.out]) ELSE F(0))

ReluRule(c, g, d) ==
    CellAdd(g, c.s, IF FLt(d[c.s], F(0)) THEN F(0) ELSE FMul(F(1), g[c.out]))

\* back(): run closure c on the grad cells g, reading the data cells d
Call(c, g, d) ==
    CASE c.kind = "add" -> AddRule(c, g, d)
      [] c.kind = "mul" -> MulRule(c, g, d)
      [] c.kind = "power" -> PowerRule(c, g, d)
      [] c.kind = "relu" -> ReluRule(c, g, d)

(***************************************************************************)
(* Handle identity and the depth-first sort of Value::backward             *)
(***************************************************************************)
\* impl PartialEq for Value: self.core.as_ptr() == other.core.as_ptr()
\* faulty variant: handles are compared by the data they hold
ValueEqByData(a, b) == data[a] = data[b]

ValueEq(a, b) == a = b

\* faulty variant: the visited set is never consulted
ContainsNever(set, node) == FALSE

\* HashSet<Value>::contains, which decides by Hash and PartialEq of Value
Contains(set, node) == \E v \in set : ValueEq(v, node)

RECURSIVE topological_sort(_, _)
RECURSIVE SortChildren(_, _, _)
RECURSIVE topological_sort_preorder(_, _)
RECURSIVE SortChildrenPreorder(_, _, _)

SortChildrenPreorder(v, i, st) ==
    IF i > Len(v) THEN st
    ELSE SortChildrenPreorder(v, i + 1, topological_sort_preorder(v[i], st))

\* faulty variant: the node is pushed before its children are sorted
topological_sort_preorder(node, st) ==
    IF \E v \in st.visited : v = node THEN st
    ELSE LET st1 == [st EXCEPT !.visited = @ \cup {node}]
         IN  IF children[node] # <<>>
             THEN SortChildrenPreorder(children[node][1], 1,
                      [st1 EXCEPT !.tp_order = Append(@, node)])
             ELSE st1

\* for c in v.iter() { topological_sort(c, visited, tp_order) }
SortChildren(v, i, st) ==
    IF i > Len(v) THEN st
    ELSE SortChildren(v, i + 1, topological_sort(v[i], st))

topological_sort(node, st) ==
    IF Contains(st.visited, node) THEN st
    ELSE LET st1 == [st EXCEPT !.visited = @ \cup {node}]
         IN  IF IsSome(children[node])
             THEN LET st2 == SortChildren(Unwrap(children[node]), 1, st1)
                  IN  [st2 EXCEPT !.tp_order = Append(@, node)]
             ELSE st1

(***************************************************************************)
(* Initial state: no node exists, no call is running                       *)
(***************************************************************************)
EngineInit ==
    /\ data = <<>>
    /\ grad = <<>>
    /\ op = <<>>
    /\ children = <<>>
    /\ backward = <<>>
    /\ pc = "idle"
    /\ self = 0
    /\ tp_order = <<>>
    /\ visited = {}
    /\ idx = 0
    /\ hist = <<>>
    /\ nbuilds = 0
    /\ nops = 0

\* no unit test, no group call, no Model and no training loop
TestOff == [name |-> "none", a |-> 0, b |-> 0, pc |-> "off"]
GrpOff == [pc |-> "off", data |-> <<>>, labels |-> <<>>, k |-> None,
           out |-> <<>>]
NnOff == [layers |-> <<>>]
TrainOff == [pc |-> "off"]

Init ==
    /\ EngineInit
    /\ test = TestOff
    /\ grp = GrpOff
    /\ nn = NnOff
    /\ train = TrainOff

\* the caller is between two calls of the engine
Ready == pc \in {"idle", "returned"}

Install(h) ==
    /\ data' = h.data
    /\ grad' = h.grad
    /\ op' = h.op
    /\ children' = h.children
    /\ backward' = h.backward

\* a builder or constructor call returning heap h
Build(h) ==
    /\ Ready
    /\ nbuilds < MaxBuilds
    /\ Install(h)
    /\ nbuilds' = nbuilds + 1
    /\ pc' = "idle"
    /\ hist' = <<>>
    /\ UNCHANGED <<callVars, nops, auxVars>>

Leaf == \E v \in LeafData : Build(LeafNew(Heap, F(v)))

Add == \E a \in Nodes, b \in Nodes : Build(AddB(Heap, a, b))

Mul == \E a \in Nodes, b \in Nodes : Build(MulB(Heap, a, b))

\* the operand is one whose powers stay finite, at build and at replay
Power ==
    \E a \in Nodes, k \in Exps :
        /\ PowFinite(data[a], k - 1)
        /\ Build(PowerB(Heap, a, k))

Relu == \E a \in Nodes : Build(ReluB(Heap, a))

Neg == \E a \in Nodes : Build(NegB(Heap, a))

Sub == \E a \in Nodes, b \in Nodes : Build(SubB(Heap, a, b))

\* the divisor is not zero
Div ==
    \E a \in Nodes, b \in Nodes :
        /\ PowFinite(data[b], -2)
        /\ Build(DivB(Heap, a, b))

\* Value::new((data, op, Some(children))) called directly: no closure
RawNode ==
    \E a \in Nodes : Build(ValueNew(Heap, data[a], "None", Some(<<a>>)))

\* Value::set_data: self.core.borrow().data.set(val)
set_data(d, n, val) == [d EXCEPT ![n] = val]

\* faulty variant: the seed is added to the cell
set_grad_adds(g, n, val) == [g EXCEPT ![n] = FAdd(@, val)]

\* faulty variant: every other grad cell is cleared along with the write
set_grad_clears(g, n, val) ==
    [m \in DOMAIN g |-> IF m = n THEN val ELSE F(0)]

\* Value::set_grad: self.core.borrow().grad.set(val)
set_grad(g, n, val) == [g EXCEPT ![n] = val]

SetData ==
    \E n \in Nodes, v \in DataVals :
        /\ Ready
        /\ nops < MaxOps
        /\ data' = set_data(data, n, F(v))
        /\ nops' = nops + 1
        /\ pc' = "idle"
        /\ hist' = <<>>
        /\ UNCHANGED <<grad, op, children, backward, callVars, nbuilds, auxVars>>

SetGrad ==
    \E n \in Nodes, v \in GradVals :
        /\ Ready
        /\ nops < MaxOps
        /\ grad' = set_grad(grad, n, F(v))
        /\ nops' = nops + 1
        /\ pc' = "idle"
        /\ hist' = <<>>
        /\ UNCHANGED <<data, op, children, backward, callVars, nbuilds, auxVars>>

(***************************************************************************)
(* Value::backward, in three steps: the sort and the seed, one step per    *)
(* turn of the replay loop, and the return.                                *)
(***************************************************************************)
\* root.backward() up to the replay loop
BackwardOn(root) ==
    /\ Ready
    /\ LET st == topological_sort(root, [visited |-> {}, tp_order |-> <<>>])
       IN  /\ visited' = st.visited
           /\ tp_order' = st.tp_order
           /\ idx' = Len(st.tp_order)
    /\ self' = root
    /\ grad' = set_grad(grad, root, F(1))
    /\ hist' = IF pc = "returned" /\ self = root THEN hist ELSE <<grad>>
    /\ pc' = "replay"
    /\ UNCHANGED <<data, op, children, backward>>

BackwardCall ==
    \E root \in Nodes :
        /\ nops < MaxOps
        /\ BackwardOn(root)
        /\ nops' = nops + 1
        /\ UNCHANGED <<nbuilds, auxVars>>

\* faulty variant: a node without a closure is passed over
ReplayStepSkips ==
    /\ pc = "replay"
    /\ idx > 0
    /\ LET v == tp_order[idx]
       IN  IF IsSome(backward[v])
           THEN grad' = Call(Unwrap(backward[v]), grad, data)
           ELSE grad' = grad
    /\ idx' = idx - 1
    /\ UNCHANGED <<data, op, children, backward, pc, self, tp_order, visited,
                   hist, nbuilds, nops, auxVars>>

\* one turn of: for v in tp_order.iter().rev()
ReplayStep ==
    /\ pc = "replay"
    /\ idx > 0
    /\ LET v == tp_order[idx]
       IN  IF IsSome(backward[v])
           THEN /\ grad' = Call(Unwrap(backward[v]), grad, data)
                /\ idx' = idx - 1
                /\ pc' = pc
           ELSE /\ pc' = "panicked"
                /\ UNCHANGED <<grad, idx>>
    /\ UNCHANGED <<data, op, children, backward, self, tp_order, visited,
                   hist, nbuilds, nops, auxVars>>

BackwardReturn ==
    /\ pc = "replay"
    /\ idx = 0
    /\ pc' = "returned"
    /\ hist' = Append(hist, grad)
    /\ UNCHANGED <<heapVars, callVars, nbuilds, nops, auxVars>>

Next ==
    \/ Leaf
    \/ Add
    \/ Mul
    \/ Power
    \/ Relu
    \/ Neg
    \/ Sub
    \/ Div
    \/ RawNode
    \/ SetData
    \/ SetGrad
    \/ BackwardCall
    \/ ReplayStep
    \/ BackwardReturn

Spec == Init /\ [][Next]_vars

(***************************************************************************)
(* The graph and its derivatives, stated without the driver                *)
(***************************************************************************)
Kids(n) == IF IsSome(children[n]) THEN Unwrap(children[n]) ELSE <<>>

ChildSet(n) == {Kids(n)[i] : i \in DOMAIN Kids(n)}

RECURSIVE ReachFrom(_)
ReachFrom(S) ==
    LET T == S \cup UNION {ChildSet(n) : n \in S}
    IN  IF T = S THEN S ELSE ReachFrom(T)

\* the nodes reachable from root through child edges, root included
Reach(root) == ReachFrom({root})

\* the child edges inside Reach(root) that end in n, as <<parent, slot>>
EdgesInto(root, n) ==
    {e \in Reach(root) \X {1, 2} :
        e[2] \in DOMAIN Kids(e[1]) /\ Kids(e[1])[e[2]] = n}

\* the partial derivative of node p with respect to its child in slot i,
\* at the operands' data d (section 4.3 of the design)
Local(p, i, d) ==
    CASE op[p] = "Addition" -> F(1)
      [] op[p] = "Multiplication" -> d[Kids(p)[3 - i]]
      [] op[p] = "Power" ->
            LET k == Unwrap(backward[p]).exp
            IN  FMul(F(k), powf(d[Kids(p)[1]], k - 1))
      [] op[p] = "ReLU" -> IF FLt(d[Kids(p)[1]], F(0)) THEN F(0) ELSE F(1)
      [] OTHER -> F(0)

RECURSIVE Deriv(_, _)
RECURSIVE SumEdges(_, _)

\* the sum over edges E of Deriv(root, parent) * Local(parent, slot)
SumEdges(root, E) ==
    IF E = {} THEN F(0)
    ELSE LET e == CHOOSE x \in E : TRUE
         IN  FAdd(FMul(Deriv(root, e[1]), Local(e[1], e[2], data)),
                  SumEdges(root, E \ {e}))

\* d root / d n: the sum over the child-edge paths from root to n of the
\* product of the local partial derivatives along the path
Deriv(root, n) ==
    IF n = root THEN F(1) ELSE SumEdges(root, EdgesInto(root, n))

AllZero(g) == \A n \in DOMAIN g : g[n] = F(0)

\* exactly k consecutive calls of self.backward() have returned, nothing
\* else has run since the first of them started, and all grads were 0 then
AfterCalls(k) ==
    /\ pc = "returned"
    /\ Len(hist) = k + 1
    /\ AllZero(hist[1])

(***************************************************************************)
(* C1: on a graph of leaves, add, mul, power and relu nodes whose grads    *)
(* are all 0, one root.backward() leaves in every node reachable from root *)
(* the derivative of root with respect to it: 1 in root, elsewhere the sum *)
(* over the paths of the products of the local partial derivatives.        *)
(***************************************************************************)
C1_AnalyticGradients ==
    AfterCalls(1) => \A n \in Reach(self) : grad[n] = Deriv(self, n)

\* a = 2, c = a + a, d = c * a, d.backward(): a is reached on three paths
\* of two lengths and a.grad == 8
C1_Witness ==
    /\ AfterCalls(1)
    /\ Len(data) = 3
    /\ self = 3
    /\ op[2] = "Addition" /\ Kids(2) = <<1, 1>>
    /\ op[3] = "Multiplication" /\ Kids(3) = <<2, 1>>
    /\ data[1] = F(2)
    /\ grad[1] = F(8)

(***************************************************************************)
(* C2 as claimed: two root.backward() calls in a row, all grads 0 before   *)
(* the first, leave every node reachable from root with twice the grad a   *)
(* single call leaves.                                                     *)
(***************************************************************************)
C2_Doubling ==
    AfterCalls(2) =>
        \A n \in Reach(self) : grad[n] = FMul(F(2), hist[2][n])

RECURSIVE LenDeriv(_, _)
RECURSIVE SumLenEdges(_, _)

SumLenEdges(root, E) ==
    IF E = {} THEN F(0)
    ELSE LET e == CHOOSE x \in E : TRUE
         IN  FAdd(FMul(FAdd(LenDeriv(root, e[1]), Deriv(root, e[1])),
                       Local(e[1], e[2], data)),
                  SumLenEdges(root, E \ {e}))

\* the sum over the child-edge paths from root to n of the path's length
\* times the product of the local partial derivatives along it
LenDeriv(root, n) ==
    IF n = root THEN F(0) ELSE SumLenEdges(root, EdgesInto(root, n))

\* every path from root to n is a single child edge
OnlyDirectChild(root, n) ==
    /\ n # root
    /\ \A e \in EdgesInto(root, n) : e[1] = root

(***************************************************************************)
(* C2 amended: after two calls in a row root.grad is 1 (it is seeded       *)
(* again), and every reachable node holds the sum over the paths from root *)
(* of (1 + path length) times the product of the local partials, because   *)
(* the second pass propagates the grads its parents have accumulated; the  *)
(* grad is twice the single-call one for the nodes that root reaches by    *)
(* single child edges only.                                                *)
(***************************************************************************)
C2_SecondPassAccumulates ==
    AfterCalls(2) =>
        /\ grad[self] = F(1)
        /\ \A n \in Reach(self) :
              /\ grad[n] = FAdd(Deriv(self, n), LenDeriv(self, n))
              /\ OnlyDirectChild(self, n) =>
                    grad[n] = FMul(F(2), hist[2][n])

\* a chain root -> c -> a: a holds three times, c twice its single-call grad
C2_Witness ==
    /\ AfterCalls(2)
    /\ \E a, c \in Reach(self) \ {self} :
          /\ OnlyDirectChild(self, c)
          /\ EdgesInto(self, a) = {<<c, 1>>}
          /\ hist[2][a] # F(0)
          /\ hist[2][c] # F(0)
          /\ grad[c] = FMul(F(2), hist[2][c])
          /\ grad[a] = FMul(F(3), hist[2][a])

\* the position of node n in the order list, 0 when it is not listed
Pos(n) ==
    IF \E i \in DOMAIN tp_order : tp_order[i] = n
    THEN CHOOSE i \in DOMAIN tp_order : tp_order[i] = n
    ELSE 0

\* the nodes of Reach(root) that have n as a child
ParentsIn(root, n) == {e[1] : e \in EdgesInto(root, n)}

\* the replay loop is about to invoke the rule of tp_order[idx]
AboutToInvoke == pc = "replay" /\ idx > 0

(***************************************************************************)
(* C3: the order list is a topological order (a listed node comes after    *)
(* each of its listed children); when the replay is about to invoke the    *)
(* rule of a node, the rules of all its parents reachable from root have   *)
(* been invoked (they sit at later positions), so the node's grad is       *)
(* complete: with all grads 0 before the call it is already the derivative *)
(* of root with respect to the node.                                       *)
(***************************************************************************)
C3_TopologicalReplay ==
    pc \in {"replay", "returned", "panicked"} =>
        /\ \A i \in DOMAIN tp_order :
              \A c \in ChildSet(tp_order[i]) : Pos(c) < i
        /\ AboutToInvoke =>
              LET v == tp_order[idx]
              IN  /\ \A p \in ParentsIn(self, v) : Pos(p) > idx
                  /\ (Len(hist) = 1 /\ AllZero(hist[1])) =>
                        grad[v] = Deriv(self, v)

\* the rule about to run belongs to a node that is a child of root and of
\* a deeper node, both of which have already written into its grad
C3_Witness ==
    /\ AboutToInvoke
    /\ Len(hist) = 1 /\ AllZero(hist[1])
    /\ LET v == tp_order[idx]
       IN  /\ self \in ParentsIn(self, v)
           /\ \E p \in ParentsIn(self, v) : p # self
           /\ grad[v] = Deriv(self, v)
           /\ grad[v] # F(0)
           /\ IsSome(backward[v])

(***************************************************************************)
(* C4: the child relation is acyclic: every child of a node was created    *)
(* strictly before it (positions are creation order) and no node is among  *)
(* its own descendants, however many parents a node has.                   *)
(***************************************************************************)
C4_Acyclic ==
    \A n \in Nodes :
        /\ \A c \in ChildSet(n) : c \in Nodes /\ c < n
        /\ n \notin ReachFrom(ChildSet(n))

ParentsOf(n) == {p \in Nodes : n \in ChildSet(p)}

\* after sub(a, a) and relu(a), a is a child of three nodes
C4_Witness ==
    \E n \in Nodes :
        /\ Cardinality(ParentsOf(n)) >= 3
        /\ Len(data) >= 5

NoDup(seq) == \A i, j \in DOMAIN seq : seq[i] = seq[j] => i = j

(***************************************************************************)
(* C5: two handles are equal exactly when they hold the same node, so two  *)
(* nodes with equal data are not equal; the sort's visited set therefore   *)
(* holds every node reachable from root (none is taken for another with    *)
(* the same data) and no node is listed twice, through whatever handles it *)
(* is reached.                                                             *)
(***************************************************************************)
C5_IdentityEquality ==
    /\ \A a, b \in Nodes : ValueEq(a, b) <=> a = b
    /\ pc \in {"replay", "returned", "panicked"} =>
          /\ visited = Reach(self)
          /\ NoDup(tp_order)
          /\ \A n \in Reach(self) : IsSome(children[n]) => Pos(n) > 0

\* two distinct leaves with equal data are both visited, and one of them is
\* reached through two handles
C5_Witness ==
    /\ pc = "replay"
    /\ \E a, b \in visited :
          /\ a # b
          /\ data[a] = data[b]
          /\ ~IsSome(children[a]) /\ ~IsSome(children[b])
          /\ Cardinality(EdgesInto(self, a)) >= 2

(***************************************************************************)
(* C6: the rules read the operands' data when they run.  After             *)
(* c.backward() with all grads 0 before, for c = a * b (a and b distinct,  *)
(* reached from c by that edge only) b.grad is a's data as it is now and   *)
(* a.grad is b's; for c = a.power(k) a.grad is k * data^(k-1) and for      *)
(* c = a.relu() a.grad is 0 or 1 by the sign of a's data as it is now; and *)
(* a step that overwrites one node's data changes no other node's data.    *)
(***************************************************************************)
SoleEdge(root, n) == Cardinality(EdgesInto(root, n)) = 1

C6_RulesReadCurrentData ==
    /\ [](AfterCalls(1) /\ IsSome(backward[self]) =>
            LET c == Unwrap(backward[self])
            IN  /\ (c.kind = "mul" /\ SoleEdge(self, c.s)
                                   /\ SoleEdge(self, c.oth)) =>
                      /\ grad[c.oth] = data[c.s]
                      /\ grad[c.s] = data[c.oth]
                /\ c.kind = "power" =>
                      grad[c.s] = FMul(F(c.exp), powf(data[c.s], c.exp - 1))
                /\ c.kind = "relu" =>
                      grad[c.s] = IF FLt(data[c.s], F(0)) THEN F(0) ELSE F(1))
    /\ [][Len(data') = Len(data) =>
            Cardinality({n \in Nodes : data'[n] # data[n]}) <= 1]_vars

\* c = a * b, then set_data on an operand, then c.backward(): c still holds
\* the old product and the grads are the operands' new data
C6_Witness ==
    /\ AfterCalls(1)
    /\ IsSome(backward[self])
    /\ LET c == Unwrap(backward[self])
       IN  /\ c.kind = "mul"
           /\ c.s # c.oth
           /\ data[self] # FMul(data[c.s], data[c.oth])
           /\ grad[c.oth] = data[c.s]
           /\ grad[c.s] = data[c.oth]

\* the forward value of a node of tag o with operands kids at data d
Forward(o, kids, d, back) ==
    CASE o = "Addition" -> FAdd(d[kids[1]], d[kids[2]])
      [] o = "Multiplication" -> FMul(d[kids[1]], d[kids[2]])
      [] o = "Power" -> powf(d[kids[1]], Unwrap(back).exp)
      [] o = "ReLU" -> IF FLt(F(0), d[kids[1]]) THEN d[kids[1]] ELSE F(0)

BuilderTags == {"Addition", "Multiplication", "Power", "ReLU"}

(***************************************************************************)
(* C7: a node created by add, mul, power or relu holds, when the builder   *)
(* returns, da + db, da * db, da^k or max(da, 0) of its operands' data at  *)
(* that moment, and grad 0.                                                *)
(***************************************************************************)
C7_EagerForward ==
    [][\A n \in (Len(data) + 1)..Len(data') :
          /\ grad'[n] = F(0)
          /\ op'[n] \in BuilderTags =>
                data'[n] = Forward(op'[n], Unwrap(children'[n]), data',
                                   backward'[n])]_vars

\* a = 2, a / a, then a sub: a power node holding 1/2, mul and add nodes
C7_Witness ==
    /\ \E n \in Nodes : op[n] = "Power" /\ data[n] = <<1, 2>>
                        /\ data[Kids(n)[1]] = F(2)
    /\ \E n \in Nodes : op[n] = "Multiplication" /\ data[n] = <<-1, 2>>
    /\ \E n \in Nodes : op[n] = "Addition" /\ data[n] = <<1, 2>>
    /\ AllZero(grad)

\* what the rule of node v adds to the grad cell of node n: the sum over
\* the slots of v that hold n of the local partial times v's grad
RECURSIVE Contribution(_, _, _)
Contribution(v, n, i) ==
    IF i > Len(Kids(v)) THEN F(0)
    ELSE FAdd(IF Kids(v)[i] = n
              THEN FMul(Local(v, i, data), grad[v]) ELSE F(0),
              Contribution(v, n, i + 1))

\* steps of a backward call: its start, a rule invocation, its return
CallStep == pc \in {"idle", "returned"} /\ pc' = "replay"
RuleStep == pc = "replay" /\ pc' = "replay" /\ idx' # idx

(***************************************************************************)
(* C8: the call sets root's grad to exactly 1, whatever it held, and       *)
(* writes no other cell at that point; every rule invocation adds its      *)
(* contribution to what each cell holds and leaves root's grad alone; so   *)
(* root.grad is 1 when backward returns.                                   *)
(***************************************************************************)
C8_GradWritesAccumulate ==
    /\ [](pc = "returned" => grad[self] = F(1))
    /\ [][/\ CallStep =>
                /\ grad'[self'] = F(1)
                /\ \A n \in Nodes \ {self'} : grad'[n] = grad[n]
          /\ RuleStep =>
                /\ grad'[self] = grad[self]
                /\ \A n \in Nodes :
                      grad'[n] = FAdd(grad[n],
                                      Contribution(tp_order[idx], n, 1))]_vars

\* root held a grad other than 0 and 1 and an operand held a nonzero grad
\* before the call; afterwards root holds 1 and the operand holds more
C8_Witness ==
    /\ pc = "returned"
    /\ hist[Len(hist) - 1][self] \notin {F(0), F(1)}
    /\ grad[self] = F(1)
    /\ \E n \in ChildSet(self) :
          /\ hist[Len(hist) - 1][n] # F(0)
          /\ grad[n] = FAdd(hist[Len(hist) - 1][n], Deriv(self, n))
          /\ Deriv(self, n) # F(0)

\* the nodes reachable from root that have a children list and no rule
Ruleless(root) ==
    {n \in Reach(root) : IsSome(children[n]) /\ ~IsSome(backward[n])}

(***************************************************************************)
(* C9: a backward call aborts exactly when a node reachable from root has  *)
(* a children list and no rule: an aborted call has such a node, a call    *)
(* that returned has none, and each step of a running call either invokes  *)
(* a rule and moves one position down the list, aborts at a node without a *)
(* rule, or returns from the end of the list; on graphs made by the        *)
(* builders alone it does not abort.                                       *)
(***************************************************************************)
C9_OnlyMissingRuleAborts ==
    /\ [](pc = "panicked" => tp_order[idx] \in Ruleless(self))
    /\ [](pc = "returned" => Ruleless(self) = {})
    /\ [][pc = "replay" =>
            \/ /\ pc' = "replay"
               /\ idx' = idx - 1
               /\ IsSome(backward[tp_order[idx]])
            \/ /\ pc' = "panicked"
               /\ ~IsSome(backward[tp_order[idx]])
            \/ /\ pc' = "returned"
               /\ idx = 0]_vars

\* the call ran the root's rule and then aborted at a deeper node
C9_Witness ==
    /\ pc = "panicked"
    /\ tp_order[idx] # self
    /\ tp_order[idx] \in Ruleless(self)
    /\ IsSome(backward[self])

(***************************************************************************)
(* C10: a step of backward changes no node's data, tag, children or rule   *)
(* and no grad cell outside the nodes reachable from root; when the call   *)
(* returns every node not reachable from root holds the grad it held when  *)
(* the call started.                                                       *)
(***************************************************************************)
C10_BackwardFrame ==
    /\ [](pc = "returned" =>
            /\ Len(hist[Len(hist) - 1]) = Len(grad)
            /\ \A n \in Nodes \ Reach(self) :
                  grad[n] = hist[Len(hist) - 1][n])
    /\ [][pc' # "idle" =>
            /\ data' = data
            /\ op' = op
            /\ children' = children
            /\ backward' = backward
            /\ \A n \in Nodes \ Reach(self') : grad'[n] = grad[n]]_vars

\* a parent of root keeps a nonzero grad through a call that changes the
\* grad of a node below root
C10_Witness ==
    /\ pc = "returned"
    /\ \E p \in Nodes \ Reach(self) :
          /\ self \in ChildSet(p)
          /\ grad[p] # F(0)
          /\ grad[p] = hist[Len(hist) - 1][p]
    /\ \E n \in Reach(self) \ {self} : grad[n] # hist[Len(hist) - 1][n]

\* a step of set_grad
SetGradStep == pc' = "idle" /\ nops' = nops + 1 /\ Len(data') = Len(data)

(***************************************************************************)
(* C11: no step changes the tag, the children list or the rule of a node   *)
(* that exists; a constructor or builder call only adds nodes and leaves   *)
(* the data and grad of every existing node as they were; a grad cell of   *)
(* an existing node changes only in a step of backward or of set_grad.     *)
(***************************************************************************)
C11_BuildersKeepOperands ==
    [][/\ Len(data') >= Len(data)
       /\ \A n \in Nodes :
             /\ op'[n] = op[n]
             /\ children'[n] = children[n]
             /\ backward'[n] = backward[n]
       /\ Len(data') > Len(data) =>
             \A n \in Nodes : data'[n] = data[n] /\ grad'[n] = grad[n]
       /\ (\E n \in Nodes : grad'[n] # grad[n]) =>
             CallStep \/ RuleStep \/ SetGradStep]_vars

\* the only call besides constructors and builders was backward on the
\* node before the last; the last node was then built on it and the grads
\* that backward left are still there
C11_Witness ==
    /\ pc = "idle"
    /\ nops = 1
    /\ Len(data) >= 3
    /\ self = Len(data) - 1
    /\ self \in ChildSet(Len(data))
    /\ IsSome(backward[Len(data)])
    /\ grad[self] = F(1)
    /\ grad[Len(data)] = F(0)
    /\ \E n \in Reach(self) \ {self} : grad[n] # F(0)

\* the nodes of a sequence
Range(seq) == {seq[i] : i \in DOMAIN seq}

(***************************************************************************)
(* C13: in a backward call the order list holds exactly the nodes          *)
(* reachable from root that have a children list, each once; the other     *)
(* reachable nodes are visited and not listed; the replay starts at the    *)
(* end of the list, every rule step belongs to a listed node and moves one *)
(* position down, and the call returns from position 0: each listed node's *)
(* rule runs once, no leaf's rule runs, and a leaf root runs none.         *)
(***************************************************************************)
C13_OrderListsNonLeavesOnce ==
    /\ [](pc \in {"replay", "returned", "panicked"} =>
            /\ Range(tp_order) = {n \in Reach(self) : IsSome(children[n])}
            /\ NoDup(tp_order)
            /\ {n \in Reach(self) : ~IsSome(children[n])} \subseteq visited
            /\ ~IsSome(children[self]) => tp_order = <<>>
            /\ idx \in 0..Len(tp_order)
            /\ pc = "returned" => idx = 0)
    /\ [][/\ CallStep => idx' = Len(tp_order')
          /\ RuleStep =>
                /\ idx' = idx - 1
                /\ IsSome(children[tp_order[idx]])
                /\ \A n \in Nodes :
                      grad'[n] # grad[n] => n \in ChildSet(tp_order[idx])
          /\ (pc = "replay" /\ pc' = "returned") => grad' = grad]_vars

\* a node with children is reached through two child slots and listed once;
\* a leaf below it is visited and not listed
C13_Witness ==
    /\ pc = "returned"
    /\ \E n \in Range(tp_order) \ {self} :
          /\ Cardinality(EdgesInto(self, n)) >= 2
          /\ \E l \in ChildSet(n) : l \in visited /\ Pos(l) = 0

(***************************************************************************)
(* C17: when one node is both operands of an add or a mul, the rule's two  *)
(* writes both land in the node's grad cell: a rule step of out = a + a    *)
(* adds 2 * out.grad and one of out = a * a adds 2 * a.data * out.grad; so *)
(* after out.backward() with grads 0 before, a.grad is 2 for a + a and     *)
(* 2 * a.data for a * a.                                                   *)
(***************************************************************************)
C17_SameOperandTwice ==
    /\ [](AfterCalls(1) /\ IsSome(backward[self]) =>
            LET c == Unwrap(backward[self])
            IN  /\ (c.kind = "add" /\ c.s = c.oth) => grad[c.s] = F(2)
                /\ (c.kind = "mul" /\ c.s = c.oth) =>
                      grad[c.s] = FMul(F(2), data[c.s]))
    /\ [][RuleStep =>
            LET c == Unwrap(backward[tp_order[idx]])
            IN  /\ (c.kind = "add" /\ c.s = c.oth) =>
                      grad'[c.s] = FAdd(grad[c.s], FMul(F(2), grad[c.out]))
                /\ (c.kind = "mul" /\ c.s = c.oth) =>
                      grad'[c.s] = FAdd(grad[c.s],
                          FMul(FMul(F(2), data[c.s]), grad[c.out]))]_vars

\* p = a * a, q = p + p, q.backward(): p.grad == 2 and a.grad == 4 * a.data
C17_Witness ==
    /\ AfterCalls(1)
    /\ IsSome(backward[self])
    /\ LET c == Unwrap(backward[self])
       IN  /\ c.kind = "add" /\ c.s = c.oth
           /\ grad[c.s] = F(2)
           /\ IsSome(backward[c.s])
           /\ LET m == Unwrap(backward[c.s])
              IN  /\ m.kind = "mul" /\ m.s = m.oth
                  /\ data[m.s] = F(2)
                  /\ grad[m.s] = F(8)

(***************************************************************************)
(* utils::group, called on a dataset and its labels.                       *)
(***************************************************************************)

\* the longest dataset and the largest group count tried
MaxLen == 3
MaxK == 3

\* the [f64; 2] points and the f64 labels the datasets are drawn from
Points == {<<0, 1>>, <<1, 0>>}
Labels == {-1, 1}

SeqsUpTo(S, n) == UNION {[1..m -> S] : m \in 0..n}

\* v[start..start+size], with start counted from 0
Slice(v, start, size) == SubSeq(v, start + 1, start + size)

\* a slice start..start+size of v panics when it ends past the end of v
SliceOk(v, start, size) == start + size <= Len(v)

\* the loop of group: todo iterations are left, st holds start and the
\* groups pushed so far; ok turns FALSE when a slice panics
RECURSIVE GroupLoop(_, _, _, _, _)
GroupLoop(d, l, size, todo, st) ==
    IF todo = 0 \/ ~st.ok THEN st
    ELSE IF ~(SliceOk(d, st.start, size) /\ SliceOk(l, st.start, size))
    THEN [st EXCEPT !.ok = FALSE]
    ELSE GroupLoop(d, l, size, todo - 1,
                   [ok |-> TRUE,
                    start |-> st.start + size,
                    data_groups |-> Append(st.data_groups, Slice(d, st.start, size)),
                    labels_groups |-> Append(st.labels_groups, Slice(l, st.start, size))])

\* group(data, labels, k); ok is FALSE when the call panics (a division by
\* zero or a slice out of range)
group(d, l, k) ==
    LET group_size == IF IsSome(k) THEN Unwrap(k) ELSE Len(d)
    IN  IF group_size = 0 THEN [ok |-> FALSE, start |-> 0,
                                data_groups |-> <<>>, labels_groups |-> <<>>]
        ELSE GroupLoop(d, l, Len(d) \div group_size, group_size,
                       [ok |-> TRUE, start |-> 0,
                        data_groups |-> <<>>, labels_groups |-> <<>>])

InitGroup ==
    /\ EngineInit
    /\ test = TestOff
    /\ nn = NnOff
    /\ train = TrainOff
    /\ \E d \in SeqsUpTo(Points, MaxLen), l \in SeqsUpTo(Labels, MaxLen),
          k \in {None} \cup {Some(n) : n \in 0..MaxK} :
          grp = [pc |-> "called", data |-> d, labels |-> l, k |-> k,
                 out |-> <<>>]

\* the call runs to its return or to its panic
Group ==
    /\ grp.pc = "called"
    /\ LET r == group(grp.data, grp.labels, grp.k)
       IN  grp' = IF r.ok
                  THEN [grp EXCEPT !.pc = "returned",
                                   !.out = <<r.data_groups, r.labels_groups>>]
                  ELSE [grp EXCEPT !.pc = "panicked"]
    /\ UNCHANGED <<heapVars, callVars, pc, hist, nbuilds, nops, test, nn, train>>

NextGroup == Group

SpecGroup == InitGroup /\ [][NextGroup]_vars

\* C16: when no group count is given (k = None), group returns the whole
\* dataset as one group of the full length, and the labels as one group of
\* the full length.
C16_NoneKeepsUndivided ==
    (grp.pc = "returned" /\ grp.k = None)
        => /\ grp.out[1] = <<grp.data>>
           /\ grp.out[2] = <<grp.labels>>

\* what group does without a count: as many groups as there are points,
\* each of length 1
C16_NoneSplitsIntoSingletons ==
    (grp.pc = "returned" /\ grp.k = None)
        => /\ Len(grp.out[1]) = Len(grp.data)
           /\ Len(grp.out[2]) = Len(grp.data)
           /\ \A i \in 1..Len(grp.data) :
                 /\ grp.out[1][i] = <<grp.data[i]>>
                 /\ grp.out[2][i] = <<grp.labels[i]>>

\* a dataset of two points grouped without a count has come back
C16_Witness ==
    /\ grp.pc = "returned"
    /\ grp.k = None
    /\ Len(grp.data) = 2
    /\ Len(grp.labels) = 2
    /\ Len(grp.out[1]) = 2

\* the count of the unit test: k groups of len/k points each, in order
C16_CountSplitsEvenly ==
    (grp.pc = "returned" /\ IsSome(grp.k))
        => /\ Len(grp.out[1]) = Unwrap(grp.k)
           /\ \A i \in 1..Unwrap(grp.k) :
                 Len(grp.out[1][i]) = Len(grp.data) \div Unwrap(grp.k)

(***************************************************************************)
(* The unit tests of engine.rs as programs over two leaves a and b.  The   *)
(* tests run them on a = 1.0, b = 2.0; here the two leaf values range over *)
(* TestVals.                                                               *)
(***************************************************************************)
TestNames == {"test_add", "test_sub", "test_mul", "test_mul_neg",
              "test_power", "test_relu", "test_relu_neg", "test_div"}

\* the largest magnitude of the leaf values tried
MaxVal == 2

TestVals == (0 - MaxVal)..MaxVal

EmptyHeap == [data |-> <<>>, grad |-> <<>>, op |-> <<>>,
              children |-> <<>>, backward |-> <<>>]

\* let a = Value::new(a); let b = Value::new(b): nodes 1 and 2
TestLeaves(a, b) == LeafNew(LeafNew(EmptyHeap, F(a)), F(b))

\* the graph a test has built when it reaches its first assertion; the
\* test's last let is the last node built
TestGraph(name, a, b) ==
    LET h == TestLeaves(a, b)
    IN  CASE name = "test_add" ->
                LET c == AddB(h, 1, 2) IN AddB(c, Last(c), 2)
          [] name = "test_sub" ->
                LET c == SubB(h, 1, 2) IN SubB(c, Last(c), 2)
          [] name = "test_mul" ->
                LET c == AddB(h, 1, 2) IN MulB(c, Last(c), 2)
          [] name = "test_mul_neg" ->
                LET c == SubB(h, 1, 2) IN MulB(c, Last(c), 2)
          [] name = "test_power" ->
                LET c == AddB(h, 1, 2) IN PowerB(c, Last(c), 2)
          [] name = "test_relu" ->
                LET two == LeafNew(h, F(2))
                    m == MulB(two, 2, Last(two))
                    c == AddB(m, 1, Last(m))
                    d == ReluB(c, Last(c))
                    two2 == LeafNew(d, F(2))
                IN  MulB(two2, Last(d), Last(two2))
          [] name = "test_relu_neg" ->
                LET two == LeafNew(h, F(2))
                    m == MulB(two, 2, Last(two))
                    c == SubB(m, 1, Last(m))
                    d == ReluB(c, Last(c))
                    two2 == LeafNew(d, F(2))
                IN  MulB(two2, Last(d), Last(two2))
          [] name = "test_div" ->
                LET c == AddB(h, 1, 2) IN DivB(c, Last(c), 2)

\* test_div divides by b
InitTests ==
    /\ EngineInit
    /\ grp = GrpOff
    /\ nn = NnOff
    /\ train = TrainOff
    /\ \E name \in TestNames, a \in TestVals, b \in TestVals :
          /\ name = "test_div" => b # 0
          /\ test = [name |-> name, a |-> a, b |-> b, pc |-> "start"]

\* the lets of the test
TestBuild ==
    /\ test.pc = "start"
    /\ Install(TestGraph(test.name, test.a, test.b))
    /\ test' = [test EXCEPT !.pc = "built"]
    /\ UNCHANGED <<callVars, pc, hist, nbuilds, nops, grp, nn, train>>

\* d.backward() or e.backward() on the last node built
TestBackward ==
    /\ test.pc = "built"
    /\ BackwardOn(Len(data))
    /\ test' = [test EXCEPT !.pc = "called"]
    /\ UNCHANGED <<nbuilds, nops, grp, nn, train>>

NextTests ==
    \/ TestBuild
    \/ TestBackward
    \/ ReplayStep
    \/ BackwardReturn

SpecTests == InitTests /\ [][NextTests]_vars

\* the test named name is at its assertions on the grads
TestDone(name) == test.name = name /\ test.pc = "called" /\ pc = "returned"

\* the test named name runs on the leaf values of the repository
AsWritten(name) == test.name = name /\ test.a = 1 /\ test.b = 2

\* the node built by relu(), and its operand
ReluNode == CHOOSE n \in Nodes : op[n] = "ReLU"
ReluOperand == Kids(ReluNode)[1]

\* C14: the rule of out = a.relu() adds out.grad to a.grad when a.data >= 0
\* (a.data exactly 0 included) and adds 0 when a.data < 0.  So in
\* e = relu(a + b*2)*2 and e = relu(a - b*2)*2 the gradient of e passes an
\* active ReLU unchanged and is blocked by an inactive one: b.grad is 4
\* (resp. -4) when the operand of relu is >= 0 and 0 when it is < 0, and
\* with a = 1, b = 2 the first gives e.data = 10 and b.grad = 4, the second
\* e.data = 0 and b.grad = 0.
C14_ReluGating ==
    /\ [][(RuleStep /\ Unwrap(backward[tp_order[idx]]).kind = "relu")
            => LET c == Unwrap(backward[tp_order[idx]])
               IN  grad' = [grad EXCEPT ![c.s] =
                               FAdd(@, IF FGe(data[c.s], F(0))
                                       THEN grad[c.out] ELSE F(0))]]_vars
    /\ [](TestDone("test_relu") =>
            /\ grad[ReluNode] = F(2)
            /\ grad[ReluOperand] =
                  (IF FGe(data[ReluOperand], F(0)) THEN grad[ReluNode] ELSE F(0))
            /\ data[ReluOperand] = F(test.a + 2 * test.b)
            /\ grad[2] = (IF test.a + 2 * test.b >= 0 THEN F(4) ELSE F(0))
            /\ grad[1] = (IF test.a + 2 * test.b >= 0 THEN F(2) ELSE F(0))
            /\ AsWritten("test_relu") =>
                  data[Len(data)] = F(10) /\ grad[2] = F(4))
    /\ [](TestDone("test_relu_neg") =>
            /\ grad[ReluNode] = F(2)
            /\ grad[ReluOperand] =
                  (IF FGe(data[ReluOperand], F(0)) THEN grad[ReluNode] ELSE F(0))
            /\ data[ReluOperand] = F(test.a - 2 * test.b)
            /\ grad[2] = (IF test.a - 2 * test.b >= 0 THEN F(-4) ELSE F(0))
            /\ grad[1] = (IF test.a - 2 * test.b >= 0 THEN F(2) ELSE F(0))
            /\ AsWritten("test_relu_neg") =>
                  data[Len(data)] = F(0) /\ grad[2] = F(0))

\* test_relu has returned from backward on a graph whose relu operand is
\* exactly 0, and the gradient has passed
C14_Witness ==
    /\ TestDone("test_relu")
    /\ data[ReluOperand] = F(0)
    /\ grad[ReluOperand] = F(2)
    /\ grad[2] = F(4)

\* n is -x as impl Neg builds it: x * leaf(-1.0), with the rule of mul
IsNeg(n, x) ==
    /\ op[n] = "Multiplication"
    /\ Len(Kids(n)) = 2
    /\ Kids(n)[1] = x
    /\ LET l == Kids(n)[2]
       IN  /\ op[l] = "NoOp"
           /\ children[l] = None
           /\ backward[l] = None
           /\ data[l] = F(-1)
           /\ backward[n] = Some(Closure("mul", x, l, n, 0))

\* out is x - y as impl Sub builds it: x + (-y), with the rule of add
IsSub(out, x, y) ==
    /\ op[out] = "Addition"
    /\ Len(Kids(out)) = 2
    /\ Kids(out)[1] = x
    /\ IsNeg(Kids(out)[2], y)
    /\ backward[out] = Some(Closure("add", x, Kids(out)[2], out, 0))
    /\ data[out] = FAdd(data[x], FMul(F(-1), data[y]))

\* out is x / y as impl Div builds it: x * y.power(-1.0), with the rule of mul
IsDiv(out, x, y) ==
    /\ op[out] = "Multiplication"
    /\ Len(Kids(out)) = 2
    /\ Kids(out)[1] = x
    /\ LET p == Kids(out)[2]
       IN  /\ op[p] = "Power"
           /\ Kids(p) = <<y>>
           /\ backward[p] = Some(Closure("power", y, y, p, -1))
           /\ backward[out] = Some(Closure("mul", x, p, out, 0))
           /\ FMul(data[out], data[y]) = data[x]

\* C15: neg, sub and div attach no rule of their own: neg(a) is a * leaf(-1),
\* sub(a,b) is a + neg(b), div(a,b) is a * b.power(-1), and no node carries
\* the tag Subtraction or Division.  After backward the operands hold the
\* composed gradients: in c = a - b, d = c - b the operand c of d receives
\* d.grad, a receives c.grad and b receives -d.grad - c.grad = -2; in
\* c = a - b, d = c * b, a.grad = b and b.grad = a - 2b; in c = a + b,
\* d = c / b the operand c receives d.grad / b.data and b receives c.grad
\* - c.data / b.data^2 * d.grad, so a.grad = 1/b and b.grad = -a/b^2.  With
\* a = 1, b = 2 the first gives c.data = -1, d.data = -3, b.grad = -2 and the
\* last d.data = 1.5, b.grad = -0.25.
C15_ComposedOperators ==
    /\ \A n \in Nodes : op[n] \notin {"Subtraction", "Division"}
    /\ (test.name = "test_sub" /\ test.pc # "start") =>
          /\ IsSub(5, 1, 2)
          /\ IsSub(8, 5, 2)
          /\ Len(data) = 8
    /\ (test.name = "test_mul_neg" /\ test.pc # "start") => IsSub(5, 1, 2)
    /\ (test.name = "test_relu_neg" /\ test.pc # "start") => IsSub(7, 1, 4)
    /\ (test.name = "test_div" /\ test.pc # "start") =>
          /\ IsDiv(5, 3, 2)
          /\ Len(data) = 5
    /\ TestDone("test_sub") =>
          /\ grad[8] = F(1)
          /\ grad[5] = grad[8]
          /\ grad[1] = grad[5]
          /\ grad[2] = FAdd(FMul(F(-1), grad[8]), FMul(F(-1), grad[5]))
          /\ grad[2] = F(-2)
          /\ AsWritten("test_sub") =>
                data[5] = F(-1) /\ data[8] = F(-3) /\ grad[2] = F(-2)
    /\ TestDone("test_mul_neg") =>
          /\ grad[1] = F(test.b)
          /\ grad[2] = F(test.a - 2 * test.b)
    /\ TestDone("test_div") =>
          /\ grad[5] = F(1)
          /\ FMul(grad[3], data[2]) = grad[5]
          /\ FMul(FAdd(grad[2], FMul(F(-1), grad[3])), FMul(data[2], data[2]))
                = FMul(FMul(F(-1), data[3]), grad[5])
          /\ grad[1] = Rat(1, test.b)
          /\ grad[2] = Rat(0 - test.a, test.b * test.b)
          /\ AsWritten("test_div") =>
                data[5] = Rat(3, 2) /\ grad[2] = Rat(-1, 4)

\* test_div has returned from backward on a = 1, b = 2
C15_Witness ==
    /\ TestDone("test_div")
    /\ AsWritten("test_div")
    /\ IsDiv(5, 3, 2)
    /\ data[5] = Rat(3, 2)
    /\ grad[2] = Rat(-1, 4)

(***************************************************************************)
(* nn.rs: Neuron, Layer and Model over the engine.  A Neuron is a record   *)
(* of the handles of its weights and its bias; a Layer is a sequence of    *)
(* Neurons and a Model a sequence of Layers.  Builders return the heap     *)
(* together with what the function returns.                                *)
(***************************************************************************)

\* Neuron::params: the weights in order, then the bias
NeuronParams(n) == Append(n.weights, n.bias)

RECURSIVE LayerParamsFrom(_, _)
LayerParamsFrom(neurons, i) ==
    IF i > Len(neurons) THEN <<>>
    ELSE NeuronParams(neurons[i]) \o LayerParamsFrom(neurons, i + 1)

\* Layer::params
LayerParams(neurons) == LayerParamsFrom(neurons, 1)

RECURSIVE ModelParamsFrom(_, _)
ModelParamsFrom(layers, l) ==
    IF l > Len(layers) THEN <<>>
    ELSE LayerParams(layers[l]) \o ModelParamsFrom(layers, l + 1)

\* Model::params
ModelParams(layers) == ModelParamsFrom(layers, 1)

RECURSIVE ZeroLoop(_, _, _)
ZeroLoop(g, ps, i) ==
    IF i > Len(ps) THEN g
    ELSE ZeroLoop([g EXCEPT ![ps[i]] = F(0)], ps, i + 1)

\* faulty variant: the bias, the last handle of params(), is passed over
zero_grad_weights_only(g, ps) ==
    ZeroLoop(g, SubSeq(ps, 1, Len(ps) - 1), 1)

\* faulty variant: params() hands out copies of the nodes, and the copies
\* are what is zeroed
zero_grad_on_copies(g, ps) == g

\* Base::zero_grad on the handles ps returned by self.params()
zero_grad(g, ps) == ZeroLoop(g, ps, 1)

\* the weights of Neuron::new: one leaf per drawn value
RECURSIVE WeightLeaves(_, _, _, _)
WeightLeaves(h, ws, i, n) ==
    IF i > n THEN [h |-> h, weights |-> <<>>]
    ELSE Then(LeafNew(h, ws[i]), LAMBDA h1 :
         Then(WeightLeaves(h1, ws, i + 1, n), LAMBDA r :
         [h |-> r.h, weights |-> <<Last(h1)>> \o r.weights]))

\* Neuron::new(num_weights, nonlin), the random draws being the first
\* num_weights values of ws
NeuronNew(h, num_weights, nonlin, ws) ==
    Then(WeightLeaves(h, ws, 1, num_weights), LAMBDA w :
    Then(LeafNew(w.h, F(0)), LAMBDA b :
    [h |-> b,
     neuron |-> [weights |-> w.weights, bias |-> Last(b), nonlin |-> nonlin]]))

\* Layer::new(num_weights, neurons, nonlin): todo neurons are still to push
RECURSIVE LayerNew(_, _, _, _, _)
LayerNew(h, num_weights, todo, nonlin, ws) ==
    IF todo = 0 THEN [h |-> h, neurons |-> <<>>, ws |-> ws]
    ELSE Then(NeuronNew(h, num_weights, nonlin, ws), LAMBDA n :
         Then(LayerNew(n.h, num_weights, todo - 1, nonlin,
                       SubSeq(ws, num_weights + 1, Len(ws))), LAMBDA r :
         [h |-> r.h, neurons |-> <<n.neuron>> \o r.neurons, ws |-> r.ws]))

\* the loop of Model::new over l in 0..arch.len() (l counted from 1 here)
RECURSIVE ModelLayers(_, _, _, _, _)
ModelLayers(h, nn_arch, arch, l, ws) ==
    IF l > Len(arch) THEN [h |-> h, layers |-> <<>>]
    ELSE Then(LayerNew(h, nn_arch[l], nn_arch[l + 1], l # Len(arch), ws),
              LAMBDA y :
         Then(ModelLayers(y.h, nn_arch, arch, l + 1, y.ws), LAMBDA r :
         [h |-> r.h, layers |-> <<y.neurons>> \o r.layers]))

\* Model::new(input_size, arch)
ModelNew(h, input_size, arch, ws) ==
    ModelLayers(h, <<input_size>> \o arch, arch, 1, ws)

\* the number of random draws Model::new makes
RECURSIVE NumWeightsFrom(_, _)
NumWeightsFrom(nn_arch, l) ==
    IF l >= Len(nn_arch) THEN 0
    ELSE nn_arch[l] * nn_arch[l + 1] + NumWeightsFrom(nn_arch, l + 1)

NumWeights(input_size, arch) == NumWeightsFrom(<<input_size>> \o arch, 1)

\* the fold of Neuron::forward over inputs.zip(weights): s = s + &(x * w)
RECURSIVE NeuronFold(_, _, _, _, _)
NeuronFold(h, s, inputs, weights, i) ==
    IF i > Len(inputs) \/ i > Len(weights) THEN [h |-> h, out |-> s]
    ELSE Then(MulB(h, inputs[i], weights[i]), LAMBDA m :
         Then(AddB(m, s, Last(m)), LAMBDA a :
         NeuronFold(a, Last(a), inputs, weights, i + 1)))

\* Neuron::forward; the handle returned is the last node built
NeuronForward(h, n, inputs) ==
    Then(LeafNew(h, F(0)), LAMBDA z :
    Then(NeuronFold(z, Last(z), inputs, n.weights, 1), LAMBDA f :
    Then(AddB(f.h, f.out, n.bias), LAMBDA dot :
    IF n.nonlin THEN ReluB(dot, Last(dot)) ELSE dot)))

\* Layer::forward: self.neurons.iter().map(|n| n.forward(&inputs)).collect()
RECURSIVE LayerForward(_, _, _, _)
LayerForward(h, neurons, inputs, i) ==
    IF i > Len(neurons) THEN [h |-> h, outs |-> <<>>]
    ELSE Then(NeuronForward(h, neurons[i], inputs), LAMBDA o :
         Then(LayerForward(o, neurons, inputs, i + 1), LAMBDA r :
         [h |-> r.h, outs |-> <<Last(o)>> \o r.outs]))

\* inputs.iter().map(|v| Value::new(*v)).collect()
RECURSIVE InputLeaves(_, _, _)
InputLeaves(h, inputs, i) ==
    IF i > Len(inputs) THEN [h |-> h, outs |-> <<>>]
    ELSE Then(LeafNew(h, inputs[i]), LAMBDA h1 :
         Then(InputLeaves(h1, inputs, i + 1), LAMBDA r :
         [h |-> r.h, outs |-> <<Last(h1)>> \o r.outs]))

\* for l in &self.layers { is = l.forward(is) }
RECURSIVE ThroughLayers(_, _, _, _)
ThroughLayers(h, layers, l, is) ==
    IF l > Len(layers) THEN [h |-> h, outs |-> is]
    ELSE Then(LayerForward(h, layers[l], is, 1), LAMBDA r :
         ThroughLayers(r.h, layers, l + 1, r.outs))

\* Model::forward: returns is[0].clone()
ModelForward(h, layers, inputs) ==
    Then(InputLeaves(h, inputs, 1), LAMBDA i :
    Then(ThroughLayers(i.h, layers, 1, i.outs), LAMBDA r :
    [h |-> r.h, out |-> r.outs[1]]))

(***************************************************************************)
(* utils.rs: the losses and the learning rate                              *)
(***************************************************************************)

\* alpha(pass, iterations) = 0.03 - 0.02 * pass / iterations
alpha(pass, its) ==
    FAdd(Rat(3, 100), FMul(F(-1), FMul(FMul(Rat(2, 100), F(pass)), Rat(1, its))))

\* mse(predicted, exp): (predicted - &expected).power(2.0); the handle
\* returned is the last node built
mse(h, predicted, exp) ==
    Then(ValueNew(h, exp, "None", None), LAMBDA e :
    Then(SubB(e, predicted, Last(e)), LAMBDA d :
    PowerB(d, Last(d), 2)))

\* model_params.iter().map(|v| v.power(2.0)).collect()
RECURSIVE Squares(_, _, _)
Squares(h, ps, i) ==
    IF i > Len(ps) THEN [h |-> h, outs |-> <<>>]
    ELSE Then(PowerB(h, ps[i], 2), LAMBDA q :
         Then(Squares(q, ps, i + 1), LAMBDA r :
         [h |-> r.h, outs |-> <<Last(q)>> \o r.outs]))

\* squared.iter().fold(Value::new(0.0), |sum, el| sum + el), from element i
RECURSIVE SumFold(_, _, _, _)
SumFold(h, sum, els, i) ==
    IF i > Len(els) THEN [h |-> h, out |-> sum]
    ELSE Then(AddB(h, sum, els[i]), LAMBDA a :
         SumFold(a, Last(a), els, i + 1))

\* l2(model_params, Some(lambda)): the argument of unwrap_or is built and
\* dropped; the handle returned is the last node built
l2(h, ps, lambda) ==
    Then(Squares(h, ps, 1), LAMBDA q :
    Then(LeafNew(q.h, Rat(1, 10000)), LAMBDA t :
    Then(LeafNew(t, F(0)), LAMBDA z :
    Then(SumFold(z, Last(z), q.outs, 1), LAMBDA f :
    MulB(f.h, lambda, f.out)))))

(***************************************************************************)
(* main.rs: a Model is built, then the training loop runs on one input and *)
(* its label.  Each statement of the loop body is one action; the locals   *)
(* of the body are dropped at its end, which frees every node the pass     *)
(* built (the Model keeps handles of its parameters only).  train.who is   *)
(* the receiver of the last zero_grad call and train.held the grad cells   *)
(* as they were when it was called.                                        *)
(***************************************************************************)

\* Model::new(2, &arch) and let iterations = 50 in main
InputSize == 2
iterations == 50

\* the passes of the loop that are run
MaxPasses == 2

\* main uses arch = [5, 5, 1]
Archs == {<<1>>, <<1, 1>>, <<2, 1>>}

\* the values gen_range(-1.0, 1.0) is taken to draw
Weights == {F(-1), F(0)}

\* the input point, its label and the L2 lambda chosen before the loop
InputVals == {<<F(1), F(-1)>>, <<F(2), F(1)>>}
LabelVals == {F(-1), F(1)}
Lambdas == {F(0)}

InitTrain ==
    /\ EngineInit
    /\ test = TestOff
    /\ grp = GrpOff
    /\ nn = NnOff
    /\ \E i \in InputVals, lb \in LabelVals, lm \in Lambdas :
          train = [pc |-> "new", pass |-> 0, inputs |-> i, label |-> lb,
                   lambda |-> lm, preds |-> 0, loss |-> 0, reg |-> 0,
                   tot_loss |-> 0, who |-> <<>>, held |-> <<>>]

\* let m = Model::new(2, &arch)
NewModel ==
    /\ train.pc = "new"
    /\ \E arch \in Archs :
         \E ws \in [1..NumWeights(InputSize, arch) -> Weights] :
            LET m == ModelNew(Heap, InputSize, arch, ws)
            IN  /\ Install(m.h)
                /\ nn' = [layers |-> m.layers]
    /\ train' = [train EXCEPT !.pc = "top"]
    /\ UNCHANGED <<callVars, pc, hist, nbuilds, nops, test, grp>>

\* m.zero_grad() at the head of a pass
ZeroGradModel ==
    /\ train.pc = "top"
    /\ train.pass < iterations
    /\ train.pass < MaxPasses
    /\ grad' = zero_grad(grad, ModelParams(nn.layers))
    /\ train' = [train EXCEPT !.pc = "zeroed", !.who = <<"Model">>,
                              !.held = grad]
    /\ UNCHANGED <<data, op, children, backward, callVars, pc, hist, nbuilds,
                   nops, test, grp, nn>>

\* let preds = m.forward(&inputs)
ForwardPass ==
    /\ train.pc = "zeroed"
    /\ LET r == ModelForward(Heap, nn.layers, train.inputs)
       IN  /\ Install(r.h)
           /\ train' = [train EXCEPT !.pc = "forwarded", !.preds = r.out]
    /\ UNCHANGED <<callVars, pc, hist, nbuilds, nops, test, grp, nn>>

\* let loss = mse(&preds, label)
Loss ==
    /\ train.pc = "forwarded"
    /\ LET h == mse(Heap, train.preds, train.label)
       IN  /\ Install(h)
           /\ train' = [train EXCEPT !.pc = "loss", !.loss = Last(h)]
    /\ UNCHANGED <<callVars, pc, hist, nbuilds, nops, test, grp, nn>>

\* let reg = l2(&m.params(), Some(&Value::new(l2_lambda)))
Reg ==
    /\ train.pc = "loss"
    /\ LET lm == LeafNew(Heap, train.lambda)
           h == l2(lm, ModelParams(nn.layers), Last(lm))
       IN  /\ Install(h)
           /\ train' = [train EXCEPT !.pc = "reg", !.reg = Last(h)]
    /\ UNCHANGED <<callVars, pc, hist, nbuilds, nops, test, grp, nn>>

\* let tot_loss = &loss + &reg
TotLoss ==
    /\ train.pc = "reg"
    /\ LET h == AddB(Heap, train.loss, train.reg)
       IN  /\ Install(h)
           /\ train' = [train EXCEPT !.pc = "total", !.tot_loss = Last(h)]
    /\ UNCHANGED <<callVars, pc, hist, nbuilds, nops, test, grp, nn>>

\* tot_loss.backward()
TrainBackward ==
    /\ train.pc = "total"
    /\ BackwardOn(train.tot_loss)
    /\ train' = [train EXCEPT !.pc = "backward"]
    /\ UNCHANGED <<nbuilds, nops, test, grp, nn>>

RECURSIVE UpdateLoop(_, _, _, _, _)
UpdateLoop(d, g, ps, a, i) ==
    IF i > Len(ps) THEN d
    ELSE UpdateLoop([d EXCEPT ![ps[i]] =
                        FAdd(d[ps[i]], FMul(F(-1), FMul(a, g[ps[i]])))],
                    g, ps, a, i + 1)

\* for p in m.params().iter() { p.data.set(p.get_data() - alpha * p.get_grad()) }
Update ==
    /\ train.pc = "backward"
    /\ pc = "returned"
    /\ data' = UpdateLoop(data, grad, ModelParams(nn.layers),
                          alpha(train.pass, iterations), 1)
    /\ train' = [train EXCEPT !.pc = "updated"]
    /\ UNCHANGED <<grad, op, children, backward, callVars, pc, hist, nbuilds,
                   nops, test, grp, nn>>

\* the nodes the Model holds: Model::new built them first
Keep(v) == SubSeq(v, 1, Len(ModelParams(nn.layers)))

\* the end of the loop body: preds, loss, reg and tot_loss go out of scope
\* and the nodes of the pass are freed
EndPass ==
    /\ train.pc = "updated"
    /\ data' = Keep(data)
    /\ grad' = Keep(grad)
    /\ op' = Keep(op)
    /\ children' = Keep(children)
    /\ backward' = Keep(backward)
    /\ pc' = "idle"
    /\ self' = 0
    /\ tp_order' = <<>>
    /\ visited' = {}
    /\ idx' = 0
    /\ hist' = <<>>
    /\ train' = [train EXCEPT !.pc = "top", !.pass = @ + 1, !.preds = 0,
                              !.loss = 0, !.reg = 0, !.tot_loss = 0]
    /\ UNCHANGED <<nbuilds, nops, test, grp, nn>>

\* the loop is left
LoopExit ==
    /\ train.pc = "top"
    /\ ~(train.pass < iterations /\ train.pass < MaxPasses)
    /\ train' = [train EXCEPT !.pc = "done"]
    /\ UNCHANGED <<heapVars, callVars, pc, hist, nbuilds, nops, test, grp, nn>>

\* zero_grad() called on one Layer of the trained Model
ZeroGradLayer ==
    /\ train.pc = "done"
    /\ \E l \in DOMAIN nn.layers :
          /\ grad' = zero_grad(grad, LayerParams(nn.layers[l]))
          /\ train' = [train EXCEPT !.who = <<"Layer", l>>, !.held = grad]
    /\ UNCHANGED <<data, op, children, backward, callVars, pc, hist, nbuilds,
                   nops, test, grp, nn>>

\* zero_grad() called on one Neuron of the trained Model
ZeroGradNeuron ==
    /\ train.pc = "done"
    /\ \E l \in DOMAIN nn.layers :
         \E i \in DOMAIN nn.layers[l] :
            /\ grad' = zero_grad(grad, NeuronParams(nn.layers[l][i]))
            /\ train' = [train EXCEPT !.who = <<"Neuron", l, i>>,
                                      !.held = grad]
    /\ UNCHANGED <<data, op, children, backward, callVars, pc, hist, nbuilds,
                   nops, test, grp, nn>>

NextTrain ==
    \/ NewModel
    \/ ZeroGradModel
    \/ ForwardPass
    \/ Loss
    \/ Reg
    \/ TotLoss
    \/ TrainBackward
    \/ ReplayStep
    \/ BackwardReturn
    \/ Update
    \/ EndPass
    \/ LoopExit
    \/ ZeroGradLayer
    \/ ZeroGradNeuron

SpecTrain == InitTrain /\ [][NextTrain]_vars

\* the handles of every weight and bias of the Model
Params == Range(ModelParams(nn.layers))

\* acc with the share of node p handed on to its operands: each operand
\* gains acc[p] times the partial derivative of p with respect to it
HandDown(acc, p) ==
    LET k == Kids(p)
        a1 == IF Len(k) >= 1
              THEN CellAdd(acc, k[1], FMul(acc[p], Local(p, 1, data)))
              ELSE acc
    IN  IF Len(k) >= 2
        THEN CellAdd(a1, k[2], FMul(acc[p], Local(p, 2, data)))
        ELSE a1

\* operands are built before the node that uses them, so going down from
\* root a node's derivative is complete when its turn comes (the test on
\* the lengths only makes each step be computed before the next)
RECURSIVE DerivDown(_, _)
DerivDown(p, acc) ==
    IF p = 0 THEN acc
    ELSE LET a == HandDown(acc, p)
         IN  IF Len(a) = Len(acc) THEN DerivDown(p - 1, a) ELSE acc

\* d root / d n for every node n at once: Deriv(root, n), computed as one
\* backward pass over a graph whose grads start at 0
FreshGrads(root) ==
    DerivDown(root, [n \in Nodes |-> IF n = root THEN F(1) ELSE F(0)])

\* the two ways of computing the derivative agree
FreshGradsIsDeriv ==
    pc = "returned" =>
        \A n \in Reach(self) : FreshGrads(self)[n] = Deriv(self, n)

\* C18: in the training loop, right after each pass's backward every
\* parameter's grad is the derivative of that pass's tot_loss with respect
\* to it on the graph the pass built over the parameters' current data
\* (nothing of earlier passes is in it), although zero_grad writes the grad
\* cells of the parameters only: when backward is called every node under
\* tot_loss has grad 0, the parameters by zero_grad and the others by their
\* construction in this pass.
C18_FreshGradsEachPass ==
    /\ [](train.pc = "total" =>
            \A n \in Reach(train.tot_loss) :
                /\ grad[n] = F(0)
                /\ n \notin Params => n > Cardinality(Params))
    /\ []((train.pc = "backward" /\ pc = "returned") =>
            \A p \in Params :
                /\ p \in Reach(train.tot_loss)
                /\ grad[p] = FreshGrads(train.tot_loss)[p])
    /\ [][(train.pc = "top" /\ train'.pc = "zeroed") =>
            /\ \A n \in Nodes \ Params : grad'[n] = grad[n]
            /\ data' = data]_vars

\* the second pass has returned from backward with a parameter whose grad
\* is not 0 and whose data the first pass has changed
C18_Witness ==
    /\ train.pc = "backward"
    /\ pc = "returned"
    /\ train.pass = 1
    /\ \E p \in Params : grad[p] # F(0) /\ data[p] \notin Weights \cup {F(0)}

\* the nodes a Neuron, a Layer and the Model store as weights and biases
NeuronNodes(n) == Range(n.weights) \cup {n.bias}
LayerNodes(neurons) == UNION {NeuronNodes(neurons[i]) : i \in DOMAIN neurons}
ModelNodes == UNION {LayerNodes(nn.layers[l]) : l \in DOMAIN nn.layers}

\* the receiver of the zero_grad call that a step makes
Receiver ==
    CASE train'.who[1] = "Model" -> ModelNodes
      [] train'.who[1] = "Layer" -> LayerNodes(nn.layers[train'.who[2]])
      [] train'.who[1] = "Neuron" ->
            NeuronNodes(nn.layers[train'.who[2]][train'.who[3]])

ZeroGradStep ==
    \/ train.pc = "top" /\ train'.pc = "zeroed"
    \/ train.pc = "done" /\ train'.pc = "done" /\ train' # train

\* C12: zero_grad on a Neuron, a Layer or the Model sets the grad cell of
\* every weight and bias the receiver stores to 0, whatever it held, and
\* changes no data (nor any other grad cell).  The cells zeroed are the
\* ones forward uses: in the graph forward builds next every parameter is
\* an operand and its grad is 0.
C12_ZeroGradClearsParams ==
    /\ [][ZeroGradStep =>
            /\ \A p \in Receiver : grad'[p] = F(0)
            /\ \A n \in Nodes \ Receiver : grad'[n] = grad[n]
            /\ data' = data
            /\ train'.held = grad]_vars
    /\ [](train.pc = "forwarded" =>
            \A p \in ModelNodes :
                /\ grad[p] = F(0)
                /\ \E n \in Nodes : p \in ChildSet(n))

\* zero_grad has run on a Layer of a two-layer Model whose parameters held
\* grads other than 0, and the other Layer's grads are still there
C12_Witness ==
    /\ train.pc = "done"
    /\ Len(train.who) = 2
    /\ Len(nn.layers) = 2
    /\ \A l \in DOMAIN nn.layers :
          \E p \in LayerNodes(nn.layers[l]) : train.held[p] # F(0)
    /\ \A p \in LayerNodes(nn.layers[train.who[2]]) : grad[p] = F(0)
    /\ \E p \in ModelNodes : grad[p] # F(0)

TypeOK ==
    /\ nbuilds <= MaxBuilds
    /\ Len(grad) = Len(data)
    /\ pc \in {"idle", "replay", "returned", "panicked"}

====
